---- MODULE Spec2Model ----
(***************************************************************************)
(* Word-linkage zone builder (word_linkage_zone.py, class WordLinkageZone). *)
(*                                                                         *)
(* The builder is modelled statement by statement: the constructor with    *)
(* load_language_model, the three nested loops of process_corpus, and      *)
(* generate_files.  The annotator (the spaCy pipeline self.nlp) is an      *)
(* arbitrary function from the texts of the corpus to parsed documents.    *)
(* Text written to a file is a sequence of atoms: a field name, a digit,   *)
(* a character of a word form, a gloss, or one of the separators "\t" and  *)
(* "\n".                                                                   *)
(***************************************************************************)
EXTENDS Integers, Sequences, FiniteSets, TLC

\* ---------------------------------------------------------------- bounds
MaxTexts == 2          \* texts in a corpus
MaxTokens == 3         \* tokens of a corpus, all texts together
MaxFileTokens == 2     \* the same, where word forms and labels vary
MaxRepeatTokens == 1   \* the same, where process_corpus is called again
MaxCalls == 2          \* calls of process_corpus on one builder

\* ------------------------------------------------------- the annotator
\* The head of a token that is its own head.
Self == -1

\* A token as the builder reads it: token.text, token.i, token.dep_ and
\* token.head.i.  token.i is the token's position in its document, from 0.
Token(attr, i) ==
    [text |-> attr.text, i |-> i, dep_ |-> attr.dep_,
     head |-> IF attr.head = Self THEN i ELSE attr.head]

\* The sentences (doc.sents) of the tokens lo..hi of a document whose first
\* token is at `first`; starts[j] says that token j opens a sentence.
RECURSIVE Sents(_, _, _, _, _)
Sents(tokens, starts, lo, hi, first) ==
    IF lo > hi THEN << >>
    ELSE LET end == CHOOSE e \in lo..hi :
                        /\ \A j \in (lo + 1)..e : ~starts[j]
                        /\ (e = hi \/ starts[e + 1])
         IN  << [j \in 1..(end - lo + 1) |-> Token(tokens[lo + j - 1], lo + j - 1 - first)] >>
                 \o Sents(tokens, starts, end + 1, hi, first)

\* The document of text k: the tokens docOf assigns to k, in order.
DocFor(tokens, starts, docOf, k) ==
    LET mine == {j \in DOMAIN docOf : docOf[j] = k}
    IN  IF mine = {} THEN << >>
        ELSE LET lo == CHOOSE j \in mine : \A m \in mine : j <= m
                 hi == CHOOSE j \in mine : \A m \in mine : m <= j
             IN  Sents(tokens, starts, lo, hi, lo)

\* p is an annotator over K <= MaxTexts texts that returns at most maxTok
\* tokens in all, each of one of the given kinds.
IsPipeline(p, kinds, maxTok) ==
    \E K \in 0..MaxTexts, n \in 0..maxTok :
      \E docOf \in [1..n -> 1..K] :
        /\ \A j \in 1..n : j < n => docOf[j] <= docOf[j + 1]
        /\ \E starts \in [1..n -> BOOLEAN] :
             /\ \A j \in 1..n : (j = 1 \/ docOf[j - 1] # docOf[j]) => starts[j]
             /\ \E tokens \in [1..n -> kinds] :
                  p = [k \in 1..K |-> DocFor(tokens, starts, docOf, k)]

A == << "a" >>
NL == << "\n" >>

\* A root, and a dependent whose head is itself, another token of its
\* sentence or a token outside its sentence.
LinkageKinds ==
    {[text |-> A, dep_ |-> "ROOT", head |-> Self]}
        \cup [text : {A}, dep_ : {"nsubj"}, head : 0..2]
\* Word forms with and without a line break, labels with and without a gloss.
FileKinds ==
    {[text |-> A, dep_ |-> "ROOT", head |-> Self]}
        \cup [text : {A, NL}, dep_ : {"nsubj", "flat:title"}, head : {0}]
RepeatKinds ==
    {[text |-> A, dep_ |-> "ROOT", head |-> Self], [text |-> A, dep_ |-> "nsubj", head |-> 0]}

\* ----------------------------------------------------------------- state
VARIABLES
    pc,               \* the statement the builder is at
    error,            \* the exception that ended the last call, or NoError
    attrs,            \* the attributes assigned to the instance so far
    language,         \* self.language
    nlp,              \* the pipeline spacy.load returns (self.nlp once assigned)
    word_data,        \* self.word_data
    relation_data,    \* self.relation_data
    calls,            \* calls of process_corpus so far
    corpus,           \* the argument of process_corpus
    text_index,       \* locals of process_corpus
    sent_index,
    word_index,
    rel_index,        \* position of the second loop over the sentence
    word_list,
    word_index_map,
    files             \* the files of output_dir, by name

vars == << pc, error, attrs, language, nlp, word_data,
           relation_data, calls, corpus, text_index, sent_index, word_index,
           rel_index, word_list, word_index_map, files >>

builder == << attrs, language >>
tables == << word_data, relation_data >>
locals == << text_index, sent_index, word_index, rel_index, word_list, word_index_map >>

NoError == << >>
NoLanguage == ""
Languages == {"uk", "en"}

Start ==
    /\ pc = "unbuilt"
    /\ error = NoError
    /\ attrs = {}
    /\ language = NoLanguage
    /\ word_data = << >>
    /\ relation_data = << >>
    /\ calls = 0
    /\ corpus = << >>
    /\ text_index = 0
    /\ sent_index = 0
    /\ word_index = 0
    /\ rel_index = 0
    /\ word_list = << >>
    /\ word_index_map = << >>
    /\ files = << >>

Init == Start /\ IsPipeline(nlp, LinkageKinds, MaxTokens)
InitFiles == Start /\ IsPipeline(nlp, FileKinds, MaxFileTokens)
InitRepeat == Start /\ IsPipeline(nlp, RepeatKinds, MaxRepeatTokens)

\* ----------------------------------------------------------- constructor
model_name_map == [uk |-> "uk_core_news_lg"]

\* Supported with the English the module's docstring announces.
Supported_WithEnglish(lang) == lang \in {"uk", "en"}

Supported(lang) == lang \in DOMAIN model_name_map

\* WordLinkageZone(language): self.language = language, then the call of
\* load_language_model.
New(lang) ==
    /\ pc = "unbuilt"
    /\ language' = lang
    /\ attrs' = attrs \cup {"language"}
    /\ pc' = "load_language_model"
    /\ UNCHANGED << error, nlp, tables, calls, corpus, locals, files >>

\* load_language_model: the language is looked up before anything is loaded.
CheckLanguage ==
    /\ pc = "load_language_model"
    /\ IF Supported(language)
       THEN /\ pc' = "spacy_load"
            /\ error' = error
       ELSE /\ pc' = "raised"
            /\ error' = << "ValueError", "Unsupported language: ", language >>
    /\ UNCHANGED << builder, nlp, tables, calls, corpus, locals, files >>

\* spacy.load(model_name): the model is there or OSError is raised; the first
\* OSError is caught and leads to the download, the second one propagates.
SpacyLoad ==
    /\ pc \in {"spacy_load", "spacy_reload"}
    /\ \E found \in BOOLEAN :
          IF found THEN pc' = "loaded" /\ error' = error
          ELSE IF pc = "spacy_load" THEN pc' = "download" /\ error' = error
          ELSE pc' = "raised" /\ error' = << "OSError" >>
    /\ UNCHANGED << attrs, language, nlp, tables, calls, corpus, locals, files >>

Download ==
    /\ pc = "download"
    /\ pc' = "spacy_reload"
    /\ UNCHANGED << error, attrs, language, nlp, tables, calls, corpus, locals, files >>

\* self.nlp = ...; self.word_data = []; self.relation_data = []
AssignTables ==
    /\ pc = "loaded"
    /\ attrs' = attrs \cup {"nlp", "word_data", "relation_data"}
    /\ word_data' = << >>
    /\ relation_data' = << >>
    /\ pc' = "idle"
    /\ UNCHANGED << error, language, nlp, calls, corpus, locals, files >>

\* ------------------------------------------------------- process_corpus
\* doc = self.nlp(text) and the sentence the loops are at.
doc == nlp[corpus[text_index + 1]]
sent == doc[sent_index + 1]

\* WordRecord numbering the words by the annotator's token identifier.
WordRecord_TokenId(ti, si, wi, token) ==
    [text_number |-> ti + 1, sentence_number |-> si + 1,
     word_number |-> token.i + 1, word_form |-> token.text]

\* WordRecord numbering the sentences without restarting at a new text.
WordRecord_RunningSentence(ti, si, wi, token) ==
    [text_number |-> ti + 1, sentence_number |-> ti + si + 1,
     word_number |-> wi + 1, word_form |-> token.text]

\* The word record of lines 111-116.
WordRecord(ti, si, wi, token) ==
    [text_number |-> ti + 1, sentence_number |-> si + 1,
     word_number |-> wi + 1, word_form |-> token.text]

\* word_index_map[key] = value
MapPut(map, key, value) ==
    [k \in DOMAIN map \cup {key} |-> IF k = key THEN value ELSE map[k]]

\* EmitsRelation without the test of the label.
EmitsRelation_AnyLabel(token, map) == token.head \in DOMAIN map

\* EmitsRelation that also skips a token that is its own head.
EmitsRelation_NoSelfLoop(token, map) ==
    token.head \in DOMAIN map /\ token.dep_ # "ROOT" /\ token.head # token.i

\* The condition of line 122.
EmitsRelation(token, map) == token.head \in DOMAIN map /\ token.dep_ # "ROOT"

\* The subscriptions of lines 123-124 raise KeyError on a missing key.
Subscriptable(token, map) == token.i \in DOMAIN map /\ token.head \in DOMAIN map

\* RelationRecord taking the head's number from the annotator's identifier.
RelationRecord_RawHead(ti, si, token, map) ==
    [text_number |-> ti + 1, sentence_number |-> si + 1,
     word_number1 |-> map[token.i], word_number2 |-> token.head + 1,
     relation |-> token.dep_, dep_label |-> token.dep_]

\* The relation record of lines 126-133.
RelationRecord(ti, si, token, map) ==
    [text_number |-> ti + 1, sentence_number |-> si + 1,
     word_number1 |-> map[token.i], word_number2 |-> map[token.head],
     relation |-> token.dep_, dep_label |-> token.dep_]

\* The call: the loop over the texts starts at the first one.
Enter(c) ==
    /\ pc = "idle"
    /\ calls' = calls + 1
    /\ corpus' = c
    /\ text_index' = 0
    /\ pc' = "for_text"
    /\ UNCHANGED << error, builder, nlp, tables, sent_index, word_index, rel_index,
                    word_list, word_index_map, files >>

TheCorpus == [k \in DOMAIN nlp |-> k]

\* process_corpus(corpus) on the builder as constructed.
ProcessCorpus ==
    /\ calls = 0
    /\ Enter(TheCorpus)

\* Line 103-104: the next text is annotated, or the call returns.
NextText ==
    /\ pc = "for_text"
    /\ IF text_index < Len(corpus)
       THEN /\ sent_index' = 0
            /\ pc' = "for_sent"
            /\ UNCHANGED << text_index, word_index, rel_index, word_list, word_index_map >>
       ELSE /\ pc' = "idle"
            /\ text_index' = 0
            /\ sent_index' = 0
            /\ word_index' = 0
            /\ rel_index' = 0
            /\ word_list' = << >>
            /\ word_index_map' = << >>
    /\ UNCHANGED << error, builder, nlp, tables, calls, corpus, files >>

\* NextSent that keeps the map of the sentence before.
NextSent_KeepMap ==
    /\ pc = "for_sent"
    /\ IF sent_index < Len(nlp[corpus[text_index + 1]])
       THEN /\ word_list' = << >>
            /\ word_index' = 0
            /\ pc' = "for_word"
            /\ UNCHANGED << text_index, sent_index, word_index_map >>
       ELSE /\ text_index' = text_index + 1
            /\ pc' = "for_text"
            /\ UNCHANGED << sent_index, word_index, word_list, word_index_map >>
    /\ UNCHANGED << error, attrs, language, nlp, word_data, relation_data, calls, corpus,
                    rel_index, files >>

\* Lines 105-107: the next sentence gets a new word list and a new map, or
\* the loop over the texts goes on.
NextSent ==
    /\ pc = "for_sent"
    /\ IF sent_index < Len(doc)
       THEN /\ word_list' = << >>
            /\ word_index_map' = << >>
            /\ word_index' = 0
            /\ pc' = "for_word"
            /\ UNCHANGED << text_index, sent_index >>
       ELSE /\ text_index' = text_index + 1
            /\ pc' = "for_text"
            /\ UNCHANGED << sent_index, word_index, word_list, word_index_map >>
    /\ UNCHANGED << error, builder, nlp, tables, calls, corpus, rel_index, files >>

\* Lines 108-117: one token of the first loop over the sentence.
AppendWord ==
    /\ pc = "for_word"
    /\ word_index < Len(sent)
    /\ LET token == sent[word_index + 1]
       IN  /\ word_list' = Append(word_list, WordRecord(text_index, sent_index, word_index, token))
           /\ word_index_map' = MapPut(word_index_map, token.i, word_index + 1)
    /\ word_index' = word_index + 1
    /\ UNCHANGED << pc, error, builder, nlp, tables, calls, corpus, text_index, sent_index,
                    rel_index, files >>

\* Line 118: self.word_data.extend(word_list), after the last token.
ExtendWordData ==
    /\ pc = "for_word"
    /\ word_index = Len(sent)
    /\ word_data' = word_data \o word_list
    /\ rel_index' = 0
    /\ pc' = "for_token"
    /\ UNCHANGED << error, builder, nlp, relation_data, calls, corpus, text_index, sent_index,
                    word_index, word_list, word_index_map, files >>

\* Lines 121-133: one token of the second loop over the sentence.
AppendRelation ==
    /\ pc = "for_token"
    /\ rel_index < Len(sent)
    /\ LET token == sent[rel_index + 1]
       IN  IF ~EmitsRelation(token, word_index_map)
           THEN /\ rel_index' = rel_index + 1
                /\ UNCHANGED << pc, error, relation_data >>
           ELSE IF Subscriptable(token, word_index_map)
           THEN /\ relation_data' = Append(relation_data,
                                       RelationRecord(text_index, sent_index, token, word_index_map))
                /\ rel_index' = rel_index + 1
                /\ UNCHANGED << pc, error >>
           ELSE /\ pc' = "raised"
                /\ error' = << "KeyError" >>
                /\ UNCHANGED << rel_index, relation_data >>
    /\ UNCHANGED << builder, nlp, word_data, calls, corpus, text_index, sent_index, word_index,
                    word_list, word_index_map, files >>

\* The second loop is over: the loop over the sentences goes on.
EndSent ==
    /\ pc = "for_token"
    /\ rel_index = Len(sent)
    /\ sent_index' = sent_index + 1
    /\ pc' = "for_sent"
    /\ UNCHANGED << error, builder, nlp, tables, calls, corpus, text_index, word_index,
                    rel_index, word_list, word_index_map, files >>

\* process_corpus(corpus) once more on the same builder.
ProcessCorpusAgain ==
    /\ calls >= 1
    /\ calls < MaxCalls
    /\ Enter(TheCorpus)

\* ------------------------------------------------------- generate_files
Digit(d) == << "0", "1", "2", "3", "4", "5", "6", "7", "8", "9" >>[d + 1]

\* str(n) of a natural number, as the f-strings of lines 191-201 format it.
RECURSIVE Str(_)
Str(n) == IF n < 10 THEN << Digit(n) >> ELSE Str(n \div 10) \o << Digit(n % 10) >>

\* The glosses spacy.glossary.explain knows among the labels of the model.
GLOSSARY == [ROOT |-> << "root" >>, nsubj |-> << "nominal subject" >>]

\* spacy.glossary.explain(term): the gloss, or None.
explain(term) ==
    IF term \in DOMAIN GLOSSARY THEN [none |-> FALSE, text |-> GLOSSARY[term]]
    ELSE [none |-> TRUE, text |-> << >>]

\* f"{value}" of what explain returned.
Format(value) == IF value.none THEN << "None" >> ELSE value.text

WordsHeader ==
    << "TextNumber", "\t", "SentenceNumber", "\t", "WordNumber", "\t", "WordForm", "\n" >>
RelationsHeader ==
    << "TextNumber", "\t", "SentenceNumber", "\t", "WordNumber1", "\t", "WordNumber2", "\t",
       "Relation", "\n" >>

\* Lines 191-192.
WordLine(word) ==
    Str(word.text_number) \o << "\t" >> \o Str(word.sentence_number) \o << "\t" >>
        \o Str(word.word_number) \o << "\t" >> \o word.word_form \o << "\n" >>

\* Lines 199-201.
RelationLine(rel) ==
    Str(rel.text_number) \o << "\t" >> \o Str(rel.sentence_number) \o << "\t" >>
        \o Str(rel.word_number1) \o << "\t" >> \o Str(rel.word_number2) \o << "\t" >>
        \o Format(explain(rel.dep_label)) \o << "\n" >>

\* What the loop of lines 190-192 writes.
RECURSIVE WordLines(_)
WordLines(table) ==
    IF table = << >> THEN << >> ELSE WordLine(Head(table)) \o WordLines(Tail(table))

\* What the loop of lines 198-201 writes.
RECURSIVE RelationLines(_)
RelationLines(table) ==
    IF table = << >> THEN << >> ELSE RelationLine(Head(table)) \o RelationLines(Tail(table))

\* generate_files(output_dir): both files are (re)written from the tables.
GenerateFiles ==
    /\ pc = "idle"
    /\ files' = [name \in {"words.txt", "relations.txt"} |->
                    IF name = "words.txt" THEN WordsHeader \o WordLines(word_data)
                    ELSE RelationsHeader \o RelationLines(relation_data)]
    /\ UNCHANGED << pc, error, builder, nlp, tables, calls, corpus, locals >>

\* ------------------------------------------------------- specifications
Build ==
    \/ \E lang \in Languages : New(lang)
    \/ CheckLanguage
    \/ SpacyLoad
    \/ Download
    \/ AssignTables

Process ==
    \/ NextText
    \/ NextSent
    \/ AppendWord
    \/ ExtendWordData
    \/ AppendRelation
    \/ EndSent

\* One call of process_corpus on a new builder.
Next == Build \/ ProcessCorpus \/ Process
Spec == Init /\ [][Next]_vars

\* The same, with the files written at any time between calls.
NextFiles == Build \/ ProcessCorpus \/ Process \/ GenerateFiles
SpecFiles == InitFiles /\ [][NextFiles]_vars

\* Up to MaxCalls calls of process_corpus on one builder.
NextRepeat == Build \/ ProcessCorpus \/ ProcessCorpusAgain \/ Process
SpecRepeat == InitRepeat /\ [][NextRepeat]_vars

\* ------------------------------------------------------------ the properties
Range(seq) == {seq[i] : i \in DOMAIN seq}

\* The call of process_corpus on the new builder has returned.
Done == pc = "idle" /\ calls = 1

\* The sentences the annotator returned for the corpus: (k, s) is sentence s
\* of the k-th text.
Annotated(k) == nlp[corpus[k]]
Sentences == UNION {{<< k, n >> : n \in 1..Len(Annotated(k))} : k \in 1..Len(corpus)}
Sentence(ks) == Annotated(ks[1])[ks[2]]

WordsOf(ks) ==
    SelectSeq(word_data, LAMBDA w : w.text_number = ks[1] /\ w.sentence_number = ks[2])
RelationsOf(ks) ==
    SelectSeq(relation_data, LAMBDA r : r.text_number = ks[1] /\ r.sentence_number = ks[2])

Ids(sn) == {sn[j].i : j \in DOMAIN sn}
Position(sn, id) == CHOOSE j \in DOMAIN sn : sn[j].i = id
HeadInside(sn, j) == sn[j].head \in Ids(sn)

\* C1 (address validity): in every state of a call on a new builder, the
\* dependent and the head word number of every relation record are word
\* numbers of word records already in the word table for the same text and
\* sentence.
AddressValidity ==
    \A r \in Range(relation_data) :
        \A number \in {r.word_number1, r.word_number2} :
            \E w \in Range(word_data) :
                /\ w.text_number = r.text_number
                /\ w.sentence_number = r.sentence_number
                /\ w.word_number = number

\* A relation between two words has just been appended, in the second
\* sentence of a text, before the sentence is finished.
AddressValidityWitness ==
    /\ pc = "for_token"
    /\ sent_index = 1
    /\ rel_index < Len(sent)
    /\ \E r \in Range(relation_data) :
          r.sentence_number = 2 /\ r.word_number1 # r.word_number2

\* C2 (numbering contiguity): after the call, the word numbers of the word
\* records of every sentence, in table order, are 1, 2, ..., N for the N
\* tokens the annotator returned, whatever the tokens' identifiers.
NumberingContiguity ==
    Done =>
        \A ks \in Sentences :
            [j \in DOMAIN WordsOf(ks) |-> WordsOf(ks)[j].word_number]
                = [j \in 1..Len(Sentence(ks)) |-> j]

\* A sentence of two tokens whose identifiers are not their positions.
NumberingContiguityWitness ==
    /\ Done
    /\ \E ks \in Sentences :
          /\ Len(Sentence(ks)) = 2
          /\ Sentence(ks)[1].i = 1
          /\ Len(WordsOf(ks)) = 2

\* The tokens of a sentence that are not labelled as roots.
NonRoots(sn) == {j \in DOMAIN sn : sn[j].dep_ # "ROOT"}
\* Those of them whose head is a token of the sentence.
Linked(sn) == {j \in NonRoots(sn) : HeadInside(sn, j)}
\* The relation records of sentence ks whose dependent is token j.
RelationsFrom(ks, j) ==
    SelectSeq(RelationsOf(ks), LAMBDA r : r.word_number1 = j)

\* C3 as stated (relation coverage): after the call, every sentence has one
\* relation record for each token that is not labelled ROOT, and no other;
\* N - 1 records when exactly one of its N tokens is a root.
RelationCoverage ==
    Done =>
        \A ks \in Sentences :
            /\ Len(RelationsOf(ks)) = Cardinality(NonRoots(Sentence(ks)))
            /\ \A j \in NonRoots(Sentence(ks)) :
                  /\ Len(RelationsFrom(ks, j)) = 1
                  /\ RelationsFrom(ks, j)[1].relation = Sentence(ks)[j].dep_

\* C3 as amended: after the call, every sentence has one relation record,
\* carrying the token's label, for each token that is not labelled ROOT and
\* whose head is a token of the same sentence, and no other record; N - 1
\* records when exactly one of its N tokens is labelled ROOT and every head is
\* in the sentence.
RelationCoverageLinked ==
    Done =>
        \A ks \in Sentences :
            /\ Len(RelationsOf(ks)) = Cardinality(Linked(Sentence(ks)))
            /\ \A j \in Linked(Sentence(ks)) :
                  /\ Len(RelationsFrom(ks, j)) = 1
                  /\ RelationsFrom(ks, j)[1].relation = Sentence(ks)[j].dep_
            /\ ( /\ Cardinality(NonRoots(Sentence(ks))) = Len(Sentence(ks)) - 1
                 /\ \A j \in DOMAIN Sentence(ks) : HeadInside(Sentence(ks), j) )
                   => Len(RelationsOf(ks)) = Len(Sentence(ks)) - 1

\* A sentence of three tokens, one root, two relations, one of them from a
\* token that is its own head.
RelationCoverageWitness ==
    /\ Done
    /\ \E ks \in Sentences :
          /\ Len(Sentence(ks)) = 3
          /\ Cardinality(NonRoots(Sentence(ks))) = 2
          /\ Len(RelationsOf(ks)) = 2
          /\ \E j \in NonRoots(Sentence(ks)) : Sentence(ks)[j].head = Sentence(ks)[j].i

\* C4 (document isolation): after the call, the k-th text's words carry text
\* number k, text numbers do not decrease along the table, the first sentence
\* of every text has number 1 and the next ones follow by 1, and the words of
\* every sentence are numbered from 1.
DocumentIsolation ==
    Done =>
        /\ \A k \in 1..Len(corpus) :
              LET tokens == UNION {{<< n, j >> : j \in DOMAIN Annotated(k)[n]} :
                                      n \in DOMAIN Annotated(k)}
              IN  Cardinality({i \in DOMAIN word_data : word_data[i].text_number = k})
                      = Cardinality(tokens)
        /\ \A w \in Range(word_data) : w.text_number \in 1..Len(corpus)
        /\ \A i \in DOMAIN word_data :
              LET w == word_data[i]
              IN  IF i = 1 \/ word_data[i - 1].text_number # w.text_number
                  THEN /\ i > 1 => word_data[i - 1].text_number < w.text_number
                       /\ w.sentence_number = 1
                       /\ w.word_number = 1
                  ELSE \/ /\ w.sentence_number = word_data[i - 1].sentence_number
                          /\ w.word_number = word_data[i - 1].word_number + 1
                       \/ /\ w.sentence_number = word_data[i - 1].sentence_number + 1
                          /\ w.word_number = 1

\* Two texts with words, the first of them with two sentences.
DocumentIsolationWitness ==
    /\ Done
    /\ Len(corpus) = 2
    /\ Len(Annotated(1)) = 2
    /\ Len(Annotated(2)) = 1
    /\ \E w \in Range(word_data) : w.text_number = 2 /\ w.sentence_number = 1
    /\ \E w \in Range(word_data) : w.text_number = 1 /\ w.sentence_number = 2

\* The tokens of a sentence whose head is no token of the sentence.
Dangling(sn) == {j \in DOMAIN sn : ~HeadInside(sn, j)}
\* An identifier the map held in an earlier sentence of the same text.
MappedBefore(ks, id) ==
    \E n \in 1..(ks[2] - 1) : id \in Ids(Annotated(ks[1])[n])

\* C5 (fail-soft): the call raises nothing, and after it a sentence with
\* tokens whose head is outside the sentence has no relation record from such
\* a token, all its word records, and for every other token not labelled
\* ROOT the one record from it to the position of its head, with its label.
FailSoft ==
    /\ error # << "KeyError" >>
    /\ Done =>
        \A ks \in Sentences :
            LET sn == Sentence(ks)
            IN  Dangling(sn) # {} =>
                    /\ \A j \in Dangling(sn) : RelationsFrom(ks, j) = << >>
                    /\ [j \in DOMAIN WordsOf(ks) |->
                           << WordsOf(ks)[j].word_number, WordsOf(ks)[j].word_form >>]
                         = [j \in DOMAIN sn |-> << j, sn[j].text >>]
                    /\ \A j \in NonRoots(sn) \ Dangling(sn) :
                          /\ Len(RelationsFrom(ks, j)) = 1
                          /\ RelationsFrom(ks, j)[1].word_number2 = Position(sn, sn[j].head)
                          /\ RelationsFrom(ks, j)[1].relation = sn[j].dep_

\* A sentence with a token whose head was mapped in the sentence before,
\* and with another token that has its relation.
FailSoftWitness ==
    /\ Done
    /\ \E ks \in Sentences :
          /\ \E j \in Dangling(Sentence(ks)) :
                /\ Sentence(ks)[j].dep_ # "ROOT"
                /\ MappedBefore(ks, Sentence(ks)[j].head)
          /\ \E j \in Linked(Sentence(ks)) : Len(RelationsFrom(ks, j)) = 1

\* C6 (stable addressing): after any calls of process_corpus on one builder,
\* no two word records have the same address, so the address in a relation
\* record identifies one word record.
StableAddressing ==
    \A i, j \in DOMAIN word_data :
        ( /\ word_data[i].text_number = word_data[j].text_number
          /\ word_data[i].sentence_number = word_data[j].sentence_number
          /\ word_data[i].word_number = word_data[j].word_number ) => i = j

\* The lines of a text: what is between the line breaks, each line the
\* sequence of its fields, a field being what is between two tabs.
RECURSIVE Split(_, _)
Split(text, sep) ==
    IF \A i \in DOMAIN text : text[i] # sep THEN << text >>
    ELSE LET at == CHOOSE i \in DOMAIN text :
                      text[i] = sep /\ \A j \in 1..(i - 1) : text[j] # sep
         IN  << SubSeq(text, 1, at - 1) >> \o Split(SubSeq(text, at + 1, Len(text)), sep)

\* The newline-terminated lines of a file, each as its fields.
Lines(text) ==
    LET parts == Split(text, "\n")
    IN  [i \in 1..(Len(parts) - 1) |-> Split(parts[i], "\t")]
Terminated(text) == text # << >> /\ text[Len(text)] = "\n"

WordFields(w) ==
    << Str(w.text_number), Str(w.sentence_number), Str(w.word_number), w.word_form >>
AddressFields(r) ==
    << Str(r.text_number), Str(r.sentence_number), Str(r.word_number1), Str(r.word_number2) >>

\* C7 (serialization shape): generate_files leaves words.txt and
\* relations.txt as the header line and one newline-terminated line for each
\* record of the table, in table order, with the record's fields in column
\* order: 1 + (number of records) lines.
SerializationShape ==
    [][GenerateFiles =>
          /\ DOMAIN files' = {"words.txt", "relations.txt"}
          /\ Terminated(files'["words.txt"])
          /\ Terminated(files'["relations.txt"])
          /\ Len(Lines(files'["words.txt"])) = 1 + Len(word_data)
          /\ Len(Lines(files'["relations.txt"])) = 1 + Len(relation_data)
          /\ Lines(files'["words.txt"])[1]
                = << << "TextNumber" >>, << "SentenceNumber" >>, << "WordNumber" >>,
                     << "WordForm" >> >>
          /\ Lines(files'["relations.txt"])[1]
                = << << "TextNumber" >>, << "SentenceNumber" >>, << "WordNumber1" >>,
                     << "WordNumber2" >>, << "Relation" >> >>
          /\ \A i \in DOMAIN word_data :
                Lines(files'["words.txt"])[i + 1] = WordFields(word_data[i])
          /\ \A i \in DOMAIN relation_data :
                SubSeq(Lines(files'["relations.txt"])[i + 1], 1, 4)
                    = AddressFields(relation_data[i])
    ]_vars

\* C8 (missing gloss): generate_files writes the line of a relation record
\* whose label has no gloss with the record's four address fields and an
\* empty Relation field.
MissingGlossEmpty ==
    [][GenerateFiles =>
          \A i \in DOMAIN relation_data :
              explain(relation_data[i].dep_label).none =>
                  /\ Len(Lines(files'["relations.txt"])) = 1 + Len(relation_data)
                  /\ Lines(files'["relations.txt"])[i + 1]
                        = AddressFields(relation_data[i]) \o << << >> >>
    ]_vars

====
